---- MODULE Spec2Model ----
(***************************************************************************)
(* Model of egui-system-fonts (src/egui-system-fonts/src/lib.rs) and of    *)
(* the Set / Extend / Reset handlers of its demo (src/demo-egui/src/       *)
(* main.rs): the font-family merge and application engine.                 *)
(*                                                                         *)
(* A FontDefinitions value is a record                                     *)
(*   [font_data : key -> bytes (partial), families : role -> Seq(key)]     *)
(* where both maps are functions whose DOMAIN is the set of entries the    *)
(* BTreeMap holds.                                                         *)
(***************************************************************************)
EXTENDS Naturals, Sequences, FiniteSets, TLC

\* default_fonts  whether egui was built with its default_fonts feature
\*                (decides what FontDefinitions::default() is)
\* fs             the font files std::fs::read can read; the program never
\*                writes it
\* defs           the FontDefinitions the caller hands to extend_*
\* ctx            the definitions the egui::Context holds (ctx.set_fonts)
\* used           candidates handed to the entry points so far
\* last           record of the latest entry-point call (see CallRecord)
VARIABLES default_fonts, fs, defs, ctx, used, last

vars == <<default_fonts, fs, defs, ctx, used, last>>

\* ------------------------------------------------------------------ bounds

\* how many candidates the resolver hands out in one behaviour, over all the
\* calls of the entry points (used counts them)
MaxCandidates == 4

\* ------------------------------------------------------- data of the model

Proportional == "Proportional"

Monospace == "Monospace"

\* the font files the resolver's Path sources name
Paths == {"kr.ttf", "jp.ttf"}

\* what std::fs::read returns for a file that is there
FileBytes(path) == <<"file", path>>

\* the candidates the resolver can offer: FoundFont { key, family, source }
FoundFonts ==
    { [key |-> "noto-kr", family |-> "Noto Sans KR",
       source |-> [tag |-> "Path", val |-> "kr.ttf"]],
      [key |-> "noto-jp", family |-> "Noto Sans JP",
       source |-> [tag |-> "Path", val |-> "jp.ttf"]],
      [key |-> "Ubuntu-Light", family |-> "Ubuntu",
       source |-> [tag |-> "Bytes", val |-> <<"mem", "ubuntu">>]] }

\* every ordered candidate list of at most n candidates
CandLists(n) == UNION { [1..m -> FoundFonts] : m \in 0..n }

\* ------------------------------------------------------ FontDefinitions

\* BTreeMap::insert: add or overwrite one entry
MapInsert(map, k, v) ==
    [x \in (DOMAIN map) \cup {k} |-> IF x = k THEN v ELSE map[x]]

EmptyMap == [x \in {} |-> x]

\* FontDefinitions::empty(): no font data, both roles present and empty
EmptyDefs ==
    [font_data |-> EmptyMap,
     families  |-> [r \in {Proportional, Monospace} |-> <<>>]]

\* FontDefinitions::default() with egui's built-in fonts
BuiltinDefs ==
    [font_data |-> [k \in {"Hack", "Ubuntu-Light", "NotoEmoji-Regular",
                           "emoji-icon-font"} |-> <<"builtin", k>>],
     families  |-> [r \in {Proportional, Monospace} |->
                      IF r = Monospace
                      THEN <<"Hack", "Ubuntu-Light", "NotoEmoji-Regular",
                             "emoji-icon-font">>
                      ELSE <<"Ubuntu-Light", "NotoEmoji-Regular",
                             "emoji-icon-font">>]]

\* FontDefinitions::default(): depends on the build's default_fonts feature
DefaultDefs(df) == IF df THEN BuiltinDefs ELSE EmptyDefs

\* a FontDefinitions the caller built by hand, with no role entry at all
BareDefs == [font_data |-> EmptyMap, families |-> EmptyMap]

\* the definitions a caller hands to extend_*
CallerDefs(df) == {DefaultDefs(df), BareDefs}

\* --------------------------------------------------------- the library

\* Option<Vec<u8>>
None == <<>>

Some(b) == <<b>>

\* read_font_bytes: a Path is read from the filesystem (fsv is the set of
\* readable files) and an unreadable one gives None; Bytes are copied
read_font_bytes(source, fsv) ==
    IF source.tag = "Path"
    THEN IF source.val \in fsv THEN Some(FileBytes(source.val)) ELSE None
    ELSE Some(source.val)

\* list.iter().any(|k| k == &key)
Contains(list, key) == \E i \in 1..Len(list) : list[i] = key

\* families.entry(family).or_default()
EntryOrDefault(families, family) ==
    IF family \in DOMAIN families THEN families[family] ELSE <<>>

\* insert_front gone wrong: no test for a key that is already in the list
insert_front_no_dedup(families, family, key) ==
    MapInsert(families, family,
              <<key>> \o EntryOrDefault(families, family))

\* insert_front: the role entry is created if missing; a key already in the
\* list is left where it is, any other key goes to index 0
insert_front(families, family, key) ==
    LET list == EntryOrDefault(families, family)
    IN  IF Contains(list, key)
        THEN MapInsert(families, family, list)
        ELSE MapInsert(families, family, <<key>> \o list)

\* insert_back gone wrong: the new key is put at index 0
insert_back_at_front(families, family, key) ==
    LET list == EntryOrDefault(families, family)
    IN  IF Contains(list, key)
        THEN MapInsert(families, family, list)
        ELSE MapInsert(families, family, <<key>> \o list)

\* insert_back: as insert_front, but a new key is pushed at the end
insert_back(families, family, key) ==
    LET list == EntryOrDefault(families, family)
    IN  IF Contains(list, key)
        THEN MapInsert(families, family, list)
        ELSE MapInsert(families, family, Append(list, key))

\* the locals of set_found_fonts / append_found_fonts before their first
\* loop; reads logs the index of every candidate handed to read_font_bytes
LoopStart(d) ==
    [defs |-> d, installed_names |-> <<>>, keys_in_priority |-> <<>>,
     reads |-> <<>>]

\* one installed candidate: font_data.insert, keys_in_priority.push,
\* installed_names.push
Install(st, f, bytes) ==
    [st EXCEPT !.defs.font_data = MapInsert(@, f.key, bytes),
               !.keys_in_priority = Append(@, f.key),
               !.installed_names = Append(@, f.family)]

\* set_loop gone wrong: a failed read ends the loop instead of skipping the
\* candidate
RECURSIVE set_loop_break(_, _, _, _)
set_loop_break(fonts, i, st, fsv) ==
    IF i > Len(fonts) THEN st
    ELSE LET f     == fonts[i]
             bytes == read_font_bytes(f.source, fsv)
             st1   == [st EXCEPT !.reads = Append(@, i)]
         IN  IF bytes = None
             THEN st1
             ELSE set_loop_break(fonts, i + 1, Install(st1, f, bytes[1]),
                                 fsv)

\* the first loop of set_found_fonts, from candidate i on
RECURSIVE set_loop(_, _, _, _)
set_loop(fonts, i, st, fsv) ==
    IF i > Len(fonts) THEN st
    ELSE LET f     == fonts[i]
             bytes == read_font_bytes(f.source, fsv)
             st1   == [st EXCEPT !.reads = Append(@, i)]
         IN  IF bytes = None
             THEN set_loop(fonts, i + 1, st1, fsv)
             ELSE set_loop(fonts, i + 1, Install(st1, f, bytes[1]), fsv)

\* front_loop gone wrong: the keys are front-inserted first to last, the
\* .rev() forgotten
RECURSIVE front_loop_forward(_, _, _)
front_loop_forward(families, keys, i) ==
    IF i = 0 THEN families
    ELSE front_loop_forward(
             insert_front(insert_front(families, Proportional,
                                       keys[Len(keys) - i + 1]),
                          Monospace, keys[Len(keys) - i + 1]),
             keys, i - 1)

\* for key in keys_in_priority.into_iter().rev(): insert_front into both
\* roles; i is the index of the key inserted next
RECURSIVE front_loop(_, _, _)
front_loop(families, keys, i) ==
    IF i = 0 THEN families
    ELSE front_loop(
             insert_front(insert_front(families, Proportional, keys[i]),
                          Monospace, keys[i]),
             keys, i - 1)

\* set_found_fonts gone wrong: it builds on the definitions the context
\* holds instead of a fresh FontDefinitions::default()
set_found_fonts_from_ctx(ctxv, fonts, fsv, df) ==
    LET st == set_loop(fonts, 1, LoopStart(ctxv), fsv)
    IN  IF st.installed_names = <<>>
        THEN [ctx |-> ctxv, installed |-> <<>>, commits |-> 0,
              reads |-> st.reads]
        ELSE [ctx |-> [font_data |-> st.defs.font_data,
                       families  |-> front_loop(st.defs.families,
                                                st.keys_in_priority,
                                                Len(st.keys_in_priority))],
              installed |-> st.installed_names, commits |-> 1,
              reads |-> st.reads]

\* set_found_fonts gone wrong: a candidate whose key the context already
\* holds is dropped as installed, as append_found_fonts does for defs
set_found_fonts_skipping(ctxv, fonts, fsv, df) ==
    LET Fresh(f) == f.key \notin DOMAIN ctxv.font_data
        st == set_loop(SelectSeq(fonts, Fresh), 1,
                       LoopStart(DefaultDefs(df)), fsv)
    IN  IF st.installed_names = <<>>
        THEN [ctx |-> ctxv, installed |-> <<>>, commits |-> 0,
              reads |-> st.reads]
        ELSE [ctx |-> [font_data |-> st.defs.font_data,
                       families  |-> front_loop(st.defs.families,
                                                st.keys_in_priority,
                                                Len(st.keys_in_priority))],
              installed |-> st.installed_names, commits |-> 1,
              reads |-> st.reads]

\* set_found_fonts: what the context holds after the call, the returned
\* names, the number of ctx.set_fonts calls and the reads
set_found_fonts(ctxv, fonts, fsv, df) ==
    LET st == set_loop(fonts, 1, LoopStart(DefaultDefs(df)), fsv)
    IN  IF st.installed_names = <<>>
        THEN [ctx |-> ctxv, installed |-> <<>>, commits |-> 0,
              reads |-> st.reads]
        ELSE [ctx |-> [font_data |-> st.defs.font_data,
                       families  |-> front_loop(st.defs.families,
                                                st.keys_in_priority,
                                                Len(st.keys_in_priority))],
              installed |-> st.installed_names, commits |-> 1,
              reads |-> st.reads]

\* append_loop gone wrong: no contains_key test, every candidate is read
RECURSIVE append_loop_no_check(_, _, _, _)
append_loop_no_check(fonts, i, st, fsv) ==
    IF i > Len(fonts) THEN st
    ELSE LET f     == fonts[i]
             bytes == read_font_bytes(f.source, fsv)
             st1   == [st EXCEPT !.reads = Append(@, i)]
         IN  IF bytes = None
             THEN append_loop_no_check(fonts, i + 1, st1, fsv)
             ELSE append_loop_no_check(fonts, i + 1,
                                       Install(st1, f, bytes[1]), fsv)

\* the first loop of append_found_fonts, from candidate i on
RECURSIVE append_loop(_, _, _, _)
append_loop(fonts, i, st, fsv) ==
    IF i > Len(fonts) THEN st
    ELSE LET f == fonts[i]
         IN  IF f.key \in DOMAIN st.defs.font_data
             THEN append_loop(fonts, i + 1, st, fsv)
             ELSE LET bytes == read_font_bytes(f.source, fsv)
                      st1   == [st EXCEPT !.reads = Append(@, i)]
                  IN  IF bytes = None
                      THEN append_loop(fonts, i + 1, st1, fsv)
                      ELSE append_loop(fonts, i + 1,
                                       Install(st1, f, bytes[1]), fsv)

\* for key in keys_in_priority: insert_back into both roles
RECURSIVE back_loop(_, _, _)
back_loop(families, keys, i) ==
    IF i > Len(keys) THEN families
    ELSE back_loop(
             insert_back(insert_back(families, Proportional, keys[i]),
                         Monospace, keys[i]),
             keys, i + 1)

\* append_found_fonts gone wrong: both role entries are made (or_default)
\* before the first loop, so they exist even when nothing is installed
append_found_fonts_eager_entries(d, fonts, fsv) ==
    LET fam == MapInsert(
                   MapInsert(d.families, Proportional,
                             EntryOrDefault(d.families, Proportional)),
                   Monospace, EntryOrDefault(d.families, Monospace))
        st  == append_loop(fonts, 1, LoopStart([d EXCEPT !.families = fam]),
                           fsv)
    IN  IF st.installed_names = <<>>
        THEN [defs |-> st.defs, installed |-> <<>>, reads |-> st.reads]
        ELSE [defs |-> [font_data |-> st.defs.font_data,
                        families  |-> back_loop(st.defs.families,
                                                st.keys_in_priority, 1)],
              installed |-> st.installed_names, reads |-> st.reads]

\* append_found_fonts: the caller's defs after the call, the returned names
\* and the reads
append_found_fonts(d, fonts, fsv) ==
    LET st == append_loop(fonts, 1, LoopStart(d), fsv)
    IN  IF st.installed_names = <<>>
        THEN [defs |-> st.defs, installed |-> <<>>, reads |-> st.reads]
        ELSE [defs |-> [font_data |-> st.defs.font_data,
                        families  |-> back_loop(st.defs.families,
                                                st.keys_in_priority, 1)],
              installed |-> st.installed_names, reads |-> st.reads]

\* extend_with_presets gone wrong: the new fonts are appended to the
\* definitions the context holds and that merge is committed
extend_with_presets_merging(ctxv, d, fonts, fsv) ==
    LET r == append_found_fonts(d, fonts, fsv)
    IN  [defs |-> r.defs,
         ctx  |-> IF r.installed # <<>>
                  THEN append_found_fonts(ctxv, fonts, fsv).defs
                  ELSE ctxv,
         installed |-> r.installed,
         commits |-> IF r.installed # <<>> THEN 1 ELSE 0,
         reads |-> r.reads]

\* the tail of extend_with_presets: append_found_fonts, then
\* ctx.set_fonts(defs.clone()) if anything was installed
extend_with_presets_body(ctxv, d, fonts, fsv) ==
    LET r == append_found_fonts(d, fonts, fsv)
    IN  [defs |-> r.defs,
         ctx  |-> IF r.installed # <<>> THEN r.defs ELSE ctxv,
         installed |-> r.installed,
         commits |-> IF r.installed # <<>> THEN 1 ELSE 0,
         reads |-> r.reads]

\* extend_auto gone wrong: ctx.set_fonts is called whatever was installed
extend_auto_always_commits(ctxv, d, fonts, fsv) ==
    LET r == append_found_fonts(d, fonts, fsv)
    IN  [defs |-> r.defs, ctx |-> r.defs, installed |-> r.installed,
         commits |-> 1, reads |-> r.reads]

\* the tail of extend_auto: the same steps, written out a second time
extend_auto_body(ctxv, d, fonts, fsv) ==
    LET r == append_found_fonts(d, fonts, fsv)
    IN  [defs |-> r.defs,
         ctx  |-> IF r.installed # <<>> THEN r.defs ELSE ctxv,
         installed |-> r.installed,
         commits |-> IF r.installed # <<>> THEN 1 ELSE 0,
         reads |-> r.reads]

\* ------------------------------------------------------------ the resolver
\* system_fonts is an external crate: each of its calls returns some ordered
\* candidate list.

find_for_system_locale == CandLists(MaxCandidates - used)

find_from_presets == CandLists(MaxCandidates - used)

\* ---------------------------------------------------------------- actions

\* the record kept of the latest entry-point call: its inputs, the state it
\* found, what it returned and did
CallRecord(mode, fonts, r) ==
    [mode |-> mode, fonts |-> fonts,
     pre_defs |-> defs, pre_ctx |-> ctx,
     installed |-> r.installed, commits |-> r.commits, reads |-> r.reads,
     again |-> /\ mode = "set"
               /\ last.mode = "set"
               /\ last.fonts = fonts,
     prev_installed |-> last.installed]

Init ==
    /\ default_fonts \in BOOLEAN
    /\ fs \in SUBSET Paths
    /\ defs \in CallerDefs(default_fonts)
    /\ ctx = DefaultDefs(default_fonts)
    /\ used = 0
    /\ last = [mode |-> "none", fonts |-> <<>>,
               pre_defs |-> defs, pre_ctx |-> ctx,
               installed |-> <<>>, commits |-> 0, reads |-> <<>>,
               again |-> FALSE, prev_installed |-> <<>>]

\* a replace entry point that hands fonts to set_found_fonts
SetCall(fonts) ==
    LET r == set_found_fonts(ctx, fonts, fs, default_fonts)
    IN  /\ ctx' = r.ctx
        /\ last' = CallRecord("set", fonts, r)
        /\ used' = used + Len(fonts)
        /\ UNCHANGED <<default_fonts, fs, defs>>

set_auto == \E fonts \in find_for_system_locale : SetCall(fonts)

set_with_presets == \E fonts \in find_from_presets : SetCall(fonts)

\* set_with_region(ctx, region, style) is
\* set_with_presets(ctx, presets_for_region(region), style)
set_with_region == set_with_presets

\* an extend entry point, r being the outcome of its body
ExtendCall(fonts, r) ==
    /\ defs' = r.defs
    /\ ctx' = r.ctx
    /\ last' = CallRecord("extend", fonts, r)
    /\ used' = used + Len(fonts)
    /\ UNCHANGED <<default_fonts, fs>>

extend_auto ==
    \E fonts \in find_for_system_locale :
        ExtendCall(fonts, extend_auto_body(ctx, defs, fonts, fs))

extend_with_presets ==
    \E fonts \in find_from_presets :
        ExtendCall(fonts, extend_with_presets_body(ctx, defs, fonts, fs))

\* extend_with_region(ctx, defs, region, style) is
\* extend_with_presets(ctx, defs, presets_for_region(region), style)
extend_with_region == extend_with_presets

\* the demo's Reset button: ctx.set_fonts(FontDefinitions::default())
Reset ==
    /\ ctx' = DefaultDefs(default_fonts)
    /\ last' = CallRecord("reset", <<>>,
                          [installed |-> <<>>, commits |-> 1, reads |-> <<>>])
    /\ UNCHANGED <<default_fonts, fs, defs, used>>

Next ==
    \/ set_auto
    \/ set_with_region
    \/ set_with_presets
    \/ extend_auto
    \/ extend_with_region
    \/ extend_with_presets
    \/ Reset

Spec == Init /\ [][Next]_vars

\* ------------------------------------------- vocabulary of the properties

Roles == {Proportional, Monospace}

\* the role's sequence, empty when the role has no entry
RoleSeq(d, role) ==
    IF role \in DOMAIN d.families THEN d.families[role] ELSE <<>>

Range(s) == {s[i] : i \in 1..Len(s)}

NoDup(s) == \A i, j \in 1..Len(s) : i # j => s[i] # s[j]

IsPrefix(p, s) == Len(p) <= Len(s) /\ SubSeq(s, 1, Len(p)) = p

\* the candidate's byte load succeeds on the current filesystem
Loads(f) == f.source.tag = "Bytes" \/ f.source.val \in fs

\* the candidates of fonts at the indices I, in list order
Pick(fonts, I) ==
    [n \in 1..Cardinality(I) |->
        fonts[CHOOSE i \in I : Cardinality({j \in I : j <= i}) = n]]

KeysOf(s) == [n \in 1..Len(s) |-> s[n].key]

NamesOf(s) == [n \in 1..Len(s) |-> s[n].family]

\* indices of the candidates whose byte load succeeds
LoadedIdx(fonts) == {i \in 1..Len(fonts) : Loads(fonts[i])}

\* indices of the candidates an extend over base installs: the load
\* succeeds, the key is not in base.font_data, and no earlier candidate
\* has installed the key
NewIdx(fonts, base) ==
    {i \in LoadedIdx(fonts) :
        /\ fonts[i].key \notin DOMAIN base.font_data
        /\ \A j \in 1..(i - 1) :
              ~(Loads(fonts[j]) /\ fonts[j].key = fonts[i].key)}

\* the latest call was a replace / an extend entry point
IsSet == last.mode = "set"

IsExtend == last.mode = "extend"

\* C1: a set_* or extend_* call commits to the rendering context (one
\* ctx.set_fonts call) exactly when the list it returns is non-empty, and
\* never commits more than once; without a commit the context holds what
\* it held, and an extend that commits leaves the caller's defs in it.
C1_CommitGating ==
    (IsSet \/ IsExtend) =>
        /\ last.commits \in {0, 1}
        /\ (last.commits = 1) <=> (last.installed # <<>>)
        /\ (last.commits = 0) => ctx = last.pre_ctx
        /\ (IsExtend /\ last.commits = 1) => ctx = defs

\* C1 witness: an extend call that installed two fonts and committed them.
C1_Witness ==
    /\ IsExtend
    /\ Len(last.installed) = 2
    /\ last.commits = 1
    /\ ctx = defs
    /\ ctx # last.pre_ctx

\* the keys of the candidates whose load succeeds, in list order
LoadedKeys(fonts) == KeysOf(Pick(fonts, LoadedIdx(fonts)))

\* no two candidates of the list share a key
DistinctKeys(fonts) == NoDup(KeysOf(fonts))

\* the keys FontDefinitions::default() lists in some role sequence
DefaultRoleKeys ==
    UNION {Range(RoleSeq(DefaultDefs(default_fonts), role)) : role \in Roles}

NewKeys(fonts, base) == KeysOf(Pick(fonts, NewIdx(fonts, base)))

\* C3: after an extend install each role sequence of the caller's defs is
\* its sequence before the call followed by the newly installed keys in
\* candidate order; entries that were there keep their index.
C3_OrderExtend ==
    IsExtend =>
        \A role \in Roles :
            RoleSeq(defs, role) =
                RoleSeq(last.pre_defs, role)
                    \o NewKeys(last.fonts, last.pre_defs)

\* C3 witness: defs had a non-empty Proportional sequence and an extend
\* installed noto-kr and noto-jp behind it.
C3_Witness ==
    /\ IsExtend
    /\ RoleSeq(last.pre_defs, Proportional) # <<>>
    /\ NewKeys(last.fonts, last.pre_defs) = <<"noto-kr", "noto-jp">>
    /\ RoleSeq(defs, Proportional) =
           RoleSeq(last.pre_defs, Proportional) \o <<"noto-kr", "noto-jp">>

\* C4: when the candidate list is empty or every load fails, the call
\* returns the empty list, the caller's defs is what it was (font_data and
\* families, no role entry created) and so is the context.
C4_NoOpOnTotalFailure ==
    ((IsSet \/ IsExtend) /\ LoadedIdx(last.fonts) = {}) =>
        /\ last.installed = <<>>
        /\ defs = last.pre_defs
        /\ ctx = last.pre_ctx

\* C4 witness: an extend over a defs without role entries whose only
\* candidates could not be read.
C4_Witness ==
    /\ IsExtend
    /\ Len(last.fonts) = 2
    /\ LoadedIdx(last.fonts) = {}
    /\ DOMAIN last.pre_defs.families = {}
    /\ DOMAIN defs.families = {}
    /\ last.installed = <<>>

\* indices of the candidates an extend over base skips: the key is in
\* font_data when the candidate is reached
SkippedIdx(fonts, base) ==
    {i \in 1..Len(fonts) :
        \/ fonts[i].key \in DOMAIN base.font_data
        \/ \E j \in 1..(i - 1) :
              Loads(fonts[j]) /\ fonts[j].key = fonts[i].key}

\* how often key occurs in the sequence
Count(s, key) == Cardinality({i \in 1..Len(s) : s[i] = key})

\* C5: an extend never reads the source of a candidate whose key is in
\* font_data when it is reached, leaves the font_data entry of a key that
\* was there before the call as it was, appends no such key to a role
\* sequence (a key of the batch is appended once), and returns one name per
\* candidate it read and loaded, none for a skipped one.
C5_ExtendSkipsExisting ==
    IsExtend =>
        /\ \A i \in SkippedIdx(last.fonts, last.pre_defs) :
              ~Contains(last.reads, i)
        /\ \A k \in DOMAIN last.pre_defs.font_data :
              /\ k \in DOMAIN defs.font_data
              /\ defs.font_data[k] = last.pre_defs.font_data[k]
              /\ \A role \in Roles :
                    Count(RoleSeq(defs, role), k) =
                        Count(RoleSeq(last.pre_defs, role), k)
        /\ \A i \in 1..Len(last.fonts) :
              \A role \in Roles :
                  Count(RoleSeq(defs, role), last.fonts[i].key) <= 1
        /\ Len(last.installed) =
               Len(last.fonts)
                   - Cardinality(SkippedIdx(last.fonts, last.pre_defs))
                   - Cardinality({i \in 1..Len(last.fonts) :
                         /\ i \notin SkippedIdx(last.fonts, last.pre_defs)
                         /\ ~Loads(last.fonts[i])})

\* C5 witness: an extend over the built-in defaults was offered
\* Ubuntu-Light (a built-in key) and noto-kr twice; it installed noto-kr
\* once and left the built-in Ubuntu-Light bytes alone.
C5_Witness ==
    /\ IsExtend
    /\ KeysOf(last.fonts) = <<"Ubuntu-Light", "noto-kr", "noto-kr">>
    /\ "Ubuntu-Light" \in DOMAIN last.pre_defs.font_data
    /\ defs.font_data["Ubuntu-Light"] = <<"builtin", "Ubuntu-Light">>
    /\ last.reads = <<2>>
    /\ last.installed = <<"Noto Sans KR">>

\* indices of the first loaded occurrence of each loaded key
FirstLoadedIdx(fonts) ==
    {i \in LoadedIdx(fonts) :
        \A j \in 1..(i - 1) :
            ~(Loads(fonts[j]) /\ fonts[j].key = fonts[i].key)}

\* the loaded key occurs more than once in the list
Repeated(fonts, key) ==
    Cardinality({i \in 1..Len(fonts) : fonts[i].key = key}) > 1

\* the index of key in a sequence that holds it once
PosOf(s, key) == CHOOSE i \in 1..Len(s) : s[i] = key

\* in the sequence, the keys installed from the indices I stand in the
\* order of those indices, and a repeated key is there exactly once
FirstOccurrenceOrder(fonts, I, s) ==
    \A i \in I :
        Repeated(fonts, fonts[i].key) =>
            /\ Count(s, fonts[i].key) = 1
            /\ \A j \in I \ {i} :
                  Count(s, fonts[j].key) = 1 =>
                      ((i < j) <=>
                          (PosOf(s, fonts[i].key) < PosOf(s, fonts[j].key)))

\* C6 as stated: in a replace and in an extend install, a loaded key that
\* occurs more than once in the candidate list is in each role sequence
\* exactly once, placed among the other newly installed keys where its
\* first occurrence stands in the candidate list.
C6_Original ==
    /\ (IsSet /\ last.commits = 1) =>
          \A role \in Roles :
              FirstOccurrenceOrder(last.fonts, FirstLoadedIdx(last.fonts),
                                   RoleSeq(ctx, role))
    /\ IsExtend =>
          \A role \in Roles :
              FirstOccurrenceOrder(last.fonts,
                                   NewIdx(last.fonts, last.pre_defs),
                                   RoleSeq(defs, role))

\* the keys of the candidates whose load succeeds
LoadedKeySet(fonts) == {fonts[i].key : i \in LoadedIdx(fonts)}

LastLoadedBytes(fonts, key) ==
    LET I == {i \in LoadedIdx(fonts) : fonts[i].key = key}
        m == CHOOSE i \in I : \A j \in I : j <= i
    IN  IF fonts[m].source.tag = "Path"
        THEN FileBytes(fonts[m].source.val)
        ELSE fonts[m].source.val

C8_ReplaceIdempotent ==
    last.again =>
        /\ ctx = last.pre_ctx
        /\ last.installed = last.prev_installed
        /\ \A role \in Roles : NoDup(RoleSeq(ctx, role))

\* C8 witness: the second of two replace installs of the same two loadable
\* candidates, the context still holding what the first one committed.
C8_Witness ==
    /\ last.again
    /\ Len(last.installed) = 2
    /\ last.commits = 1
    /\ ctx = last.pre_ctx
    /\ ctx # DefaultDefs(default_fonts)

\* the definitions an install works on: for a replace the default it builds
\* from and the context it commits to, for an extend the caller's defs
BaseDefs == IF IsSet THEN DefaultDefs(default_fonts) ELSE last.pre_defs

PostDefs == IF IsSet THEN ctx ELSE defs

\* indices of the candidates the latest call installed
InstalledIdx ==
    IF IsSet THEN LoadedIdx(last.fonts)
    ELSE NewIdx(last.fonts, last.pre_defs)

\* indices of the candidates the latest call had to read
ReadIdx ==
    IF IsSet THEN 1..Len(last.fonts)
    ELSE (1..Len(last.fonts)) \ SkippedIdx(last.fonts, last.pre_defs)

\* C9: a failed load skips that candidate only: every candidate that is
\* due is still read, in order; the returned list is the family names of
\* the installed candidates in candidate order, one per candidate; and
\* when something was installed, font_data and each role sequence have
\* gained the keys of the installed candidates and no other key.
C9_SoftFailure ==
    (IsSet \/ IsExtend) =>
        /\ last.reads = [n \in 1..Cardinality(ReadIdx) |->
                            CHOOSE i \in ReadIdx :
                                Cardinality({j \in ReadIdx : j <= i}) = n]
        /\ last.installed = NamesOf(Pick(last.fonts, InstalledIdx))
        /\ last.installed # <<>> =>
              /\ DOMAIN PostDefs.font_data =
                     DOMAIN BaseDefs.font_data
                         \cup {last.fonts[i].key : i \in InstalledIdx}
              /\ \A role \in Roles :
                    Range(RoleSeq(PostDefs, role)) =
                        Range(RoleSeq(BaseDefs, role))
                            \cup {last.fonts[i].key : i \in InstalledIdx}

\* C9 witness: a replace whose first candidate (noto-jp) could not be read
\* went on to read and install the second (noto-kr).
C9_Witness ==
    /\ IsSet
    /\ KeysOf(last.fonts) = <<"noto-jp", "noto-kr">>
    /\ fs = {"kr.ttf"}
    /\ last.reads = <<1, 2>>
    /\ last.installed = <<"Noto Sans KR">>
    /\ "noto-jp" \notin DOMAIN ctx.font_data
    /\ "noto-kr" \in DOMAIN ctx.font_data

\* no key twice in a role sequence, every listed key in font_data
WellFormed(d) ==
    \A role \in DOMAIN d.families :
        /\ NoDup(d.families[role])
        /\ Range(d.families[role]) \subseteq DOMAIN d.font_data

\* C10: the caller's defs and the context's definitions never hold a key
\* twice in a role sequence, nor list a key that font_data lacks, whatever
\* replace installs, extend installs and resets were called.
C10_StructuralInvariants == WellFormed(defs) /\ WellFormed(ctx)

\* C10 witness: after a first call that changed the context, an extend
\* whose list repeats a key and has a failing load installed a font.
C10_Witness ==
    /\ IsExtend
    /\ last.pre_ctx # DefaultDefs(default_fonts)
    /\ ~DistinctKeys(last.fonts)
    /\ LoadedIdx(last.fonts) # 1..Len(last.fonts)
    /\ last.installed # <<>>
    /\ WellFormed(defs)

\* C11: an extend_* call that returns a non-empty list leaves in the
\* context exactly the caller's defs after the call (font_data and
\* families), so a key the context held that defs lacks is gone from it;
\* an extend_* call that returns the empty list leaves the context as it
\* was, whether or not that equals defs.
C11_ExtendCommitsCallerDefs ==
    IsExtend =>
        /\ last.installed # <<>> =>
              /\ ctx.font_data = defs.font_data
              /\ ctx.families = defs.families
              /\ \A k \in DOMAIN last.pre_ctx.font_data :
                    k \in DOMAIN ctx.font_data <=> k \in DOMAIN defs.font_data
        /\ last.installed = <<>> => ctx = last.pre_ctx

\* C11 witness: the context held noto-kr from a replace install; an extend
\* on a fresh default defs installed noto-jp, and noto-kr is no longer in
\* the context.
C11_Witness ==
    /\ IsExtend
    /\ last.pre_defs = DefaultDefs(default_fonts)
    /\ "noto-kr" \in DOMAIN last.pre_ctx.font_data
    /\ RoleSeq(last.pre_ctx, Proportional)[1] = "noto-kr"
    /\ last.installed = <<"Noto Sans JP">>
    /\ "noto-kr" \notin DOMAIN ctx.font_data
    /\ ctx = defs

====
